---- MODULE Spec2Model ----
(***************************************************************************)
(* direktiv: the Library Store (document_manager.py), the Status Store     *)
(* (database.py) and the tree widget (widgets/file_tree.py) as one state   *)
(* machine.  A string is a sequence of one-character strings, a path is a  *)
(* sequence of components (pathlib's parts below the filesystem root),     *)
(* and the filesystem is the pair (dirs, files) keyed by resolved paths.   *)
(***************************************************************************)
EXTENDS Integers, Sequences, FiniteSets, TLC

VARIABLES
    files,          \* resolved path of every regular file |-> its content
    dirs,           \* resolved paths of the directories
    db,             \* documents table: library_path |-> row
    show_dotfiles,  \* FileTree.show_dotfiles and its DocumentManager's flag
    mounted,        \* the tree widget has been mounted (on_mount has run)
    nodes,          \* tree nodes below the root: data path |-> status icon
    expanded,       \* data paths of the expanded category nodes
    cursor,         \* data path of the cursor node, or None
    op,             \* the call made by the last step
    ret             \* what that call returned

vars == <<files, dirs, db, show_dotfiles, mounted, nodes, expanded, cursor, op, ret>>
fsVars == <<files, dirs>>
treeVars == <<show_dotfiles, mounted, nodes, expanded, cursor>>

----------------------------------------------------------------------------
(* Bounds of the model.                                                    *)

\* most files made by the calls in SpecAdd, SpecMove and Spec
MaxAddDocs == 3
MaxMoveDocs == 2
MaxTreeDocs == 1
\* most files made by the calls in SpecLib
MaxLibDocs == 2
\* most files made by the calls in SpecImport
MaxImportDocs == 3
\* most files there may be, copies of an export included, for add_document
\* to add one in SpecExport
MaxExportDocs == 3
\* most files made by the calls in SpecTree
MaxNavDocs == 2
\* documents in the library while their read status is changed
MaxReadDocs == 2
\* most files made by the calls in SpecOps
MaxOpsDocs == 2
\* most files made by the calls in SpecGrow
MaxGrowDocs == 1
\* most files made by the calls in SpecDot
MaxDotDocs == 2

----------------------------------------------------------------------------
(* Characters and strings.                                                 *)

Letters == {"a", "b", "c", "d", "e", "i", "k", "l", "m", "n", "o", "r", "s",
            "t", "x", "y", "C", "D", "G", "M", "P", "W"}
Digits == {"0", "1", "2", "3", "4", "5", "6", "7", "8", "9"}

\* str.isalnum() on one character
IsAlnum(c) == c \in Letters \cup Digits

\* str.lower() on one character (only the upper-case letters change)
LowerChar(c) ==
    CASE c = "C" -> "c" [] c = "D" -> "d" [] c = "G" -> "g" [] c = "M" -> "m"
      [] c = "P" -> "p" [] c = "W" -> "w" [] OTHER -> c

Lower(s) == [i \in 1..Len(s) |-> LowerChar(s[i])]

DotMd == <<".", "m", "d">>
DotDot == <<".", ".">>

EndsWith(s, suf) ==
    /\ Len(s) >= Len(suf)
    /\ SubSeq(s, Len(s) - Len(suf) + 1, Len(s)) = suf

StartsWith(s, pre) == Len(s) >= Len(pre) /\ SubSeq(s, 1, Len(pre)) = pre

\* "".join(c for c in s if c.isalnum() or c in (' ', '-', '_'))
RECURSIVE SafeChars(_)
SafeChars(s) ==
    IF s = <<>> THEN <<>>
    ELSE (IF IsAlnum(Head(s)) \/ Head(s) \in {" ", "-", "_"} THEN <<Head(s)>> ELSE <<>>)
         \o SafeChars(Tail(s))

RECURSIVE LStrip(_)
LStrip(s) == IF s # <<>> /\ Head(s) = " " THEN LStrip(Tail(s)) ELSE s

RECURSIVE RStrip(_)
RStrip(s) ==
    IF s # <<>> /\ s[Len(s)] = " " THEN RStrip(SubSeq(s, 1, Len(s) - 1)) ELSE s

\* str.strip(): the only whitespace character of the alphabet is the space
Strip(s) == RStrip(LStrip(s))

\* str(n) for a natural number
RECURSIVE DecStr(_)
DecStr(n) ==
    LET d == <<"0", "1", "2", "3", "4", "5", "6", "7", "8", "9">>[(n % 10) + 1]
    IN IF n < 10 THEN <<d>> ELSE Append(DecStr(n \div 10), d)

----------------------------------------------------------------------------
(* pathlib.                                                                *)

\* the parts of a relative path string: "" and "." parts are dropped
RECURSIVE Parts(_, _)
Parts(s, cur) ==
    LET done == IF cur = <<>> \/ cur = <<".">> THEN <<>> ELSE <<cur>>
    IN IF s = <<>> THEN done
       ELSE IF Head(s) = "/" THEN done \o Parts(Tail(s), <<>>)
       ELSE Parts(Tail(s), Append(cur, Head(s)))

\* base / s : an absolute s replaces base
Join(base, s) ==
    IF s # <<>> /\ Head(s) = "/" THEN Parts(s, <<>>) ELSE base \o Parts(s, <<>>)

\* Path.name, Path.parent
Name(p) == p[Len(p)]
Parent(p) == SubSeq(p, 1, Len(p) - 1)

\* index of the last "." of a file name, 0 if none
RECURSIVE LastDot(_)
LastDot(n) ==
    IF n = <<>> THEN 0 ELSE IF n[Len(n)] = "." THEN Len(n)
    ELSE LastDot(SubSeq(n, 1, Len(n) - 1))

\* Path.suffix and Path.stem of a file name
Suffix(n) ==
    LET i == LastDot(n)
    IN IF i > 1 /\ i < Len(n) THEN SubSeq(n, i, Len(n)) ELSE <<>>
Stem(n) == SubSeq(n, 1, Len(n) - Len(Suffix(n)))

\* PurePath.relative_to succeeds: a comparison of parts, ".." is not resolved
IsRelativeTo(p, base) == StartsWith(p, base)

\* the file the operating system reaches following p
RECURSIVE Resolve(_)
Resolve(p) ==
    IF p = <<>> THEN <<>>
    ELSE LET q == Resolve(Parent(p))
         IN IF Name(p) = DotDot
            THEN (IF q = <<>> THEN <<>> ELSE Parent(q))
            ELSE Append(q, Name(p))

----------------------------------------------------------------------------
(* The filesystem: fs = [files |-> ..., dirs |-> ...].                     *)

\* every directory on the way to p is there (".." is followed, not cancelled)
Reachable(fs, p) ==
    \/ \A i \in 1..Len(p) : p[i] # DotDot
    \/ \A i \in 1..Len(p) : Resolve(SubSeq(p, 1, i - 1)) \in fs.dirs

IsDir(fs, p) == Resolve(p) \in fs.dirs /\ Reachable(fs, p)

IsFile(fs, p) == Resolve(p) \in DOMAIN fs.files /\ Reachable(fs, p)

\* Path.exists()
Exists(fs, p) == IsDir(fs, p) \/ IsFile(fs, p)

\* Path.mkdir(exist_ok=True) raises unless p is a directory or can be made
MkdirRaises(fs, p) == ~IsDir(fs, p) /\ (IsFile(fs, p) \/ ~IsDir(fs, Parent(p)))

Mkdir(fs, p) == [fs EXCEPT !.dirs = @ \cup {Resolve(p)}]

WriteFile(fs, p, content) ==
    [fs EXCEPT !.files = [q \in DOMAIN @ \cup {Resolve(p)} |->
                             IF q = Resolve(p) THEN content ELSE @[q]]]

RemoveFile(fs, p) ==
    [fs EXCEPT !.files = [q \in DOMAIN @ \ {Resolve(p)} |-> @[q]]]

\* the entries of directory d matching "*.md", as paths d / name
GlobMd(fs, d) ==
    IF ~IsDir(fs, d) THEN {}
    ELSE {Append(d, Name(q)) : q \in {r \in DOMAIN fs.files :
                                    Parent(r) = Resolve(d) /\ EndsWith(Name(r), DotMd)}}

----------------------------------------------------------------------------
(* Library Store: document_manager.py.                                     *)

LibraryPath == << <<"l", "i", "b">> >>
General == <<"G", "e", "n", "e", "r", "a", "l">>
Personal == <<"P", "e", "r", "s", "o", "n", "a", "l">>
Work == <<"W", "o", "r", "k">>

\* Python's None where a path is expected, and where a string is expected
None == << <<"N", "o", "n", "e">>, <<>> >>
NoTitle == <<>>
NoCategory == <<>>

default_categories == <<General, Personal, Work>>

\* _ensure_default_categories
EnsureDefaultCategories(fs) ==
    [fs EXCEPT !.dirs = @ \cup {Append(LibraryPath, default_categories[i]) :
                                    i \in 1..Len(default_categories)}]

\* hashlib.md5 of the bytes of both files agree; contents stand for their
\* digests.  An unreadable file (a directory) makes the comparison False.
AreFilesIdentical(fs, file1, file2) ==
    /\ IsFile(fs, file1)
    /\ IsFile(fs, file2)
    /\ fs.files[Resolve(file1)] = fs.files[Resolve(file2)]

\* no loop: the destination is used as it is
UniqueNameOverwrite(fs, category_path, dest_path, counter) == dest_path

\* the loop "while dest_path.exists()" of add_document
RECURSIVE UniqueName(_, _, _, _)
UniqueName(fs, category_path, dest_path, counter) ==
    IF ~Exists(fs, dest_path) THEN dest_path
    ELSE LET name_stem == Stem(Name(dest_path))
         IN UniqueName(fs, category_path,
                       Join(category_path, name_stem \o <<"_">> \o DecStr(counter) \o DotMd),
                       counter + 1)

Result(fs, success, msg, path, raised) ==
    [fs |-> fs, success |-> success, msg |-> msg, path |-> path, raised |-> raised]

\* a validation that forgets the suffix
ValidateSourceExistsOnly(fs, source_path) ==
    IF ~Exists(fs, source_path) THEN "does not exist" ELSE ""

\* "Validate source" of add_document: the message of the failure, "" if none
ValidateSource(fs, source_path) ==
    IF ~Exists(fs, source_path) THEN "does not exist"
    ELSE IF Lower(Suffix(Name(source_path))) # DotMd
    THEN "Only markdown files (.md) are supported"
    ELSE ""

\* DocumentManager.add_document
AddDocument(fs, source_path, category, title) ==
    IF ValidateSource(fs, source_path) # ""
    THEN Result(fs, FALSE, ValidateSource(fs, source_path), None, FALSE)
    ELSE
    LET category_path == Join(LibraryPath, category) IN
    IF MkdirRaises(fs, category_path)
    THEN Result(fs, FALSE, "raised", None, TRUE)
    ELSE
    LET fs1 == Mkdir(fs, category_path)
        name0 == IF title # NoTitle THEN title ELSE Name(source_path)
        dest_name == IF EndsWith(name0, DotMd) THEN name0 ELSE name0 \o DotMd
        dest0 == Join(category_path, dest_name)
    IN IF Exists(fs1, dest0) /\ AreFilesIdentical(fs1, source_path, dest0)
       THEN Result(fs1, FALSE, "Document already exists in library", dest0, FALSE)
       ELSE LET dest_path == UniqueName(fs1, category_path, dest0, 1)
            IN IF IsFile(fs1, source_path) /\ IsDir(fs1, Parent(dest_path))
               THEN Result(WriteFile(fs1, dest_path, fs1.files[Resolve(source_path)]),
                           TRUE, "Added", dest_path, FALSE)
               ELSE Result(fs1, FALSE, "Failed to add document", None, FALSE)

\* the sanitized name without the strip()
SafeNameUnstripped(name) == SafeChars(name)

\* "Sanitize name" of create_category
SafeName(name) == Strip(SafeChars(name))

\* DocumentManager.create_category
CreateCategory(fs, name) ==
    IF name = <<>> \/ Strip(name) = <<>>
    THEN Result(fs, FALSE, "Category name cannot be empty", None, FALSE)
    ELSE
    LET safe_name == SafeName(name)
        category_path == Join(LibraryPath, safe_name)
    IN IF safe_name = <<>>
       THEN Result(fs, FALSE, "Invalid category name", None, FALSE)
       ELSE IF Exists(fs, category_path)
       THEN Result(fs, FALSE, "already exists", None, FALSE)
       ELSE Result(Mkdir(fs, category_path), TRUE, "Created category", category_path, FALSE)

\* a listing that does not look at the flag
ListCategoriesShowAll(fs, dotfiles) ==
    {Name(d) : d \in {e \in fs.dirs : e # <<>> /\ Parent(e) = Resolve(LibraryPath)}}

\* DocumentManager.list_categories, as the set of the names it returns
\* (the list is that set, sorted)
ListCategories(fs, dotfiles) ==
    {Name(d) : d \in {e \in fs.dirs : /\ e # <<>>
                                      /\ Parent(e) = Resolve(LibraryPath)
                                      /\ (dotfiles \/ Head(Name(e)) # ".")}}

\* DocumentManager.list_documents, as the set of its entries (the list is
\* that set, sorted by category and name); size and modified are left out
ListDocuments(fs, dotfiles, category) ==
    LET categories ==
            IF category # NoCategory
            THEN (IF Exists(fs, Join(LibraryPath, category)) THEN {category} ELSE {})
            ELSE ListCategories(fs, dotfiles)
    IN UNION {{[path |-> file_path, name |-> Name(file_path), category |-> cat] :
                   file_path \in GlobMd(fs, Join(LibraryPath, cat))} : cat \in categories}

\* DocumentManager.move_document (document_path is a file or missing)
MoveDocument(fs, document_path, new_category) ==
    IF ~Exists(fs, document_path)
    THEN Result(fs, FALSE, "Document not found", None, FALSE)
    ELSE IF ~IsRelativeTo(document_path, LibraryPath)
    THEN Result(fs, FALSE, "Document is not in library", None, FALSE)
    ELSE
    LET category_path == Join(LibraryPath, new_category) IN
    IF MkdirRaises(fs, category_path)
    THEN Result(fs, FALSE, "raised", None, TRUE)
    ELSE
    LET fs1 == Mkdir(fs, category_path)
        new_path == Append(category_path, Name(document_path))
    IN IF Exists(fs1, new_path)
       THEN Result(fs1, FALSE, "Document already exists in category", None, FALSE)
       ELSE Result(RemoveFile(WriteFile(fs1, new_path, fs1.files[Resolve(document_path)]),
                              document_path),
                   TRUE, "Moved", new_path, FALSE)

\* a delete that also removes the category directory it has emptied
DeleteDocumentPrune(fs, document_path) ==
    IF ~Exists(fs, document_path)
    THEN Result(fs, FALSE, "Document not found", None, FALSE)
    ELSE IF ~IsRelativeTo(document_path, LibraryPath)
    THEN Result(fs, FALSE, "Document is not in library", None, FALSE)
    ELSE IF ~IsFile(fs, document_path)
    THEN Result(fs, FALSE, "Failed to delete", None, FALSE)
    ELSE LET fs1 == RemoveFile(fs, document_path)
             category_path == Parent(Resolve(document_path))
         IN Result(IF \E q \in DOMAIN fs1.files : Parent(q) = category_path
                   THEN fs1
                   ELSE [fs1 EXCEPT !.dirs = @ \ {category_path}],
                   TRUE, "Document deleted", None, FALSE)

\* DocumentManager.delete_document (document_path is a file or missing)
DeleteDocument(fs, document_path) ==
    IF ~Exists(fs, document_path)
    THEN Result(fs, FALSE, "Document not found", None, FALSE)
    ELSE IF ~IsRelativeTo(document_path, LibraryPath)
    THEN Result(fs, FALSE, "Document is not in library", None, FALSE)
    ELSE IF ~IsFile(fs, document_path)
    THEN Result(fs, FALSE, "Failed to delete", None, FALSE)
    ELSE Result(RemoveFile(fs, document_path), TRUE, "Document deleted", None, FALSE)

----------------------------------------------------------------------------
(* Status Store: database.py.  A row keeps is_read and last_opened; the    *)
(* key is str(path), which is one-to-one on paths, so the path stands for  *)
(* it.  A timestamp is "ts", an SQL NULL is "NULL".                         *)

Row(is_read, last_opened) == [is_read |-> is_read, last_opened |-> last_opened]

HasRow(d, library_path) == library_path \in DOMAIN d

Update(d, library_path, row) ==
    [k \in DOMAIN d \cup {library_path} |-> IF k = library_path THEN row ELSE d[k]]

\* Database.add_document: INSERT OR REPLACE ... is_read FALSE, last_opened unset
DbAddDocument(d, library_path) == Update(d, library_path, Row(FALSE, "NULL"))

\* Database.mark_as_read: UPDATE ... WHERE library_path = ?
MarkAsRead(d, library_path) ==
    IF HasRow(d, library_path) THEN Update(d, library_path, Row(TRUE, "ts")) ELSE d

\* the statement of mark_as_read copied without changing the flag
MarkAsUnreadSetsTrue(d, library_path) ==
    IF HasRow(d, library_path)
    THEN Update(d, library_path, Row(TRUE, d[library_path].last_opened))
    ELSE d

\* Database.mark_as_unread: UPDATE ... WHERE library_path = ?
MarkAsUnread(d, library_path) ==
    IF HasRow(d, library_path)
    THEN Update(d, library_path, Row(FALSE, d[library_path].last_opened))
    ELSE d

\* Database.is_read
IsRead(d, library_path) == IF HasRow(d, library_path) THEN d[library_path].is_read ELSE FALSE

\* Database.update_last_opened: UPDATE ... WHERE library_path = ?
UpdateLastOpened(d, library_path) ==
    IF HasRow(d, library_path)
    THEN Update(d, library_path, Row(d[library_path].is_read, "ts"))
    ELSE d

\* Database.get_document_info returns a row (not None)
GetDocumentInfo(d, library_path) == HasRow(d, library_path)

\* a delete that leaves the row
DbDeleteDocumentKeepsRow(d, library_path) == d

\* Database.delete_document
DbDeleteDocument(d, library_path) == [k \in DOMAIN d \ {library_path} |-> d[k]]

----------------------------------------------------------------------------
(* DocumentManager.import_directory.                                       *)

\* source_dir.glob("**/*.md") or source_dir.glob("*.md"), as paths below source_dir
Matches(fs, source_dir, recursive) ==
    IF recursive
    THEN LET base == Resolve(source_dir)
         IN {source_dir \o SubSeq(q, Len(base) + 1, Len(q)) :
                q \in {r \in DOMAIN fs.files : /\ Len(r) > Len(base)
                                               /\ StartsWith(r, base)
                                               /\ EndsWith(Name(r), DotMd)}}
    ELSE GlobMd(fs, source_dir)

\* every order in which glob may yield the set S
RECURSIVE Orders(_)
Orders(S) ==
    IF S = {} THEN {<<>>}
    ELSE UNION {{<<x>> \o o : o \in Orders(S \ {x})} : x \in S}

\* the category is taken from the directories only, given or not
TargetCategoryFromParent(md_file, source_dir, category) ==
    IF Parent(md_file) = source_dir THEN General ELSE Name(Parent(md_file))

\* "Determine category" of import_directory
TargetCategory(md_file, source_dir, category) ==
    LET parent == Parent(md_file)
    IN IF category # NoCategory THEN category
       ELSE IF parent = source_dir THEN General
       ELSE Name(parent)

\* one iteration of the loop of import_directory; an exception of add_document
\* ends the call with what was done so far
ImportOne(st, md_file, source_dir, category) ==
    LET target_category == TargetCategory(md_file, source_dir, category)
        r == AddDocument(st.fs, md_file, target_category, NoTitle)
    IN IF st.raised THEN st
       ELSE IF r.raised THEN [st EXCEPT !.raised = TRUE]
       ELSE [fs |-> r.fs,
             success_count |-> st.success_count + (IF r.success THEN 1 ELSE 0),
             fail_count |-> st.fail_count + (IF r.success THEN 0 ELSE 1),
             messages |-> Append(st.messages, [name |-> Name(md_file), msg |-> r.msg]),
             raised |-> FALSE]

RECURSIVE ImportLoop(_, _, _, _)
ImportLoop(st, order, source_dir, category) ==
    IF order = <<>> THEN st
    ELSE ImportLoop(ImportOne(st, Head(order), source_dir, category),
                    Tail(order), source_dir, category)

\* DocumentManager.import_directory, glob yielding its matches in `order`
ImportDirectory(fs, source_dir, category, recursive, order) ==
    LET st0 == [fs |-> fs, success_count |-> 0, fail_count |-> 0,
                messages |-> <<>>, raised |-> FALSE]
    IN IF ~IsDir(fs, source_dir)
       THEN [st0 EXCEPT !.messages = <<[name |-> Name(source_dir), msg |-> "does not exist"]>>]
       ELSE ImportLoop(st0, order, source_dir, category)

----------------------------------------------------------------------------
(* DocumentManager.export_library.                                         *)

\* shutil.copytree(library_path, export_path) lists the library root, makes
\* export_path with its missing parents and copies what it listed; with
\* export_path directly inside the library root the copy is of the library
\* as it was.  doc_count is library_path.rglob("*.md") after the copy.
ExportLibrary(fs, export_path) ==
    LET base == Resolve(LibraryPath)
        dst == Resolve(export_path)
        Copy(q) == dst \o SubSeq(q, Len(base) + 1, Len(q))
        src_dirs == {d \in fs.dirs : StartsWith(d, base)}
        src_files == {q \in DOMAIN fs.files : StartsWith(q, base)}
        made == {SubSeq(dst, 1, i) : i \in 0..Len(dst)} \cup {Copy(d) : d \in src_dirs}
        fs1 == [dirs |-> fs.dirs \cup made,
                files |-> [q \in DOMAIN fs.files \cup {Copy(f) : f \in src_files} |->
                              IF q \in DOMAIN fs.files THEN fs.files[q]
                              ELSE fs.files[CHOOSE f \in src_files : Copy(f) = q]]]
        doc_count == Cardinality({q \in DOMAIN fs1.files \cup fs1.dirs :
                                     /\ Len(q) > Len(base)
                                     /\ StartsWith(q, base)
                                     /\ EndsWith(Name(q), DotMd)})
    IN IF Exists(fs, export_path)
       THEN Result(fs, FALSE, "Export path already exists", None, FALSE)
            @@ [doc_count |-> 0]
       ELSE IF \E i \in 1..(Len(dst) - 1) : SubSeq(dst, 1, i) \in DOMAIN fs.files
       THEN Result(fs, FALSE, "Export failed", None, FALSE) @@ [doc_count |-> 0]
       ELSE Result(fs1, TRUE, "Exported", None, FALSE) @@ [doc_count |-> doc_count]

----------------------------------------------------------------------------
(* Tree Reconciler: widgets/file_tree.py.  A node is known by its data     *)
(* path; nodes maps the data path of each node below the root to "folder"  *)
(* for a category node and to the status icon of a document node.          *)

root_dir == LibraryPath

\* FileTree._add_categories_and_documents on an empty root
PopulateTree(fs, d, dotfiles) ==
    LET categories == {c \in ListCategories(fs, dotfiles) : Exists(fs, Join(root_dir, c))}
        shown(c) == {doc \in ListDocuments(fs, dotfiles, c) : Exists(fs, doc.path)}
        docs == UNION {shown(c) : c \in categories}
        cat_paths == {Join(root_dir, c) : c \in categories}
    IN [nodes |-> [q \in cat_paths \cup {doc.path : doc \in docs} |->
                      IF q \in cat_paths THEN "folder"
                      ELSE IF IsRead(d, q) THEN "read" ELSE "unread"],
        expanded |-> {Join(root_dir, c) :
                         c \in {k \in categories : ListDocuments(fs, dotfiles, k) # {}}}]

\* a sync that adds every listed document, the ones that have a row too
RECURSIVE SyncRowsReplaceAll(_, _)
SyncRowsReplaceAll(d, S) ==
    IF S = {} THEN d
    ELSE LET doc == CHOOSE x \in S : TRUE
         IN SyncRowsReplaceAll(DbAddDocument(d, doc), S \ {doc})

\* FileTree._sync_database over the documents in S
RECURSIVE SyncRows(_, _)
SyncRows(d, S) ==
    IF S = {} THEN d
    ELSE LET doc == CHOOSE x \in S : TRUE
         IN SyncRows(IF ~GetDocumentInfo(d, doc) THEN DbAddDocument(d, doc) ELSE d,
                     S \ {doc})

\* no reconciliation
SyncDatabaseSkipped(fs, d, dotfiles) == d

\* a reconciliation in both directions: the rows of missing files are dropped
SyncDatabasePurging(fs, d, dotfiles) ==
    LET d1 == SyncRows(d, {doc.path : doc \in ListDocuments(fs, dotfiles, NoCategory)})
    IN [k \in {q \in DOMAIN d1 : IsFile(fs, q)} |-> d1[k]]

SyncDatabase(fs, d, dotfiles) ==
    SyncRows(d, {doc.path : doc \in ListDocuments(fs, dotfiles, NoCategory)})

\* a rebuild that restores neither the expanded nodes nor the selection
RefreshTreeRebuildOnly(fs, d, dotfiles, t) ==
    LET d1 == SyncDatabase(fs, d, dotfiles)
        built == PopulateTree(fs, d1, dotfiles)
    IN [db |-> d1, nodes |-> built.nodes, expanded |-> built.expanded, cursor |-> None]

\* a refresh that syncs the table and leaves the nodes as they are
RefreshTreeNoRebuild(fs, d, dotfiles, t) ==
    [db |-> SyncDatabase(fs, d, dotfiles), nodes |-> t.nodes,
     expanded |-> t.expanded, cursor |-> t.cursor]

\* FileTree.refresh_tree; t = [nodes, expanded, cursor], the result adds db.
\* Tree.clear() is taken to remove every node, the one under the cursor
\* with them: the cursor is on a node again only if _select_path finds one.
RefreshTree(fs, d, dotfiles, t) ==
    LET expanded_paths == {q \in t.expanded : q \in DOMAIN t.nodes /\ IsDir(fs, q)}
        selected_path == t.cursor
        d1 == SyncDatabase(fs, d, dotfiles)
        built == PopulateTree(fs, d1, dotfiles)
    IN [db |-> d1,
        nodes |-> built.nodes,
        expanded |-> built.expanded \cup (expanded_paths \cap DOMAIN built.nodes),
        cursor |-> IF selected_path # None /\ selected_path \in DOMAIN built.nodes
                   THEN selected_path ELSE None]

----------------------------------------------------------------------------
(* The files outside the library and the arguments of the calls.           *)

Ext == << <<"e", "x", "t">> >>
NameMd == <<"n", ".", "m", "d">>

Src1 == Append(Ext, NameMd)                   \* /ext/n.md
Src2 == Ext \o << <<"a">>, NameMd >>          \* /ext/a/n.md
Src3 == Ext \o << <<"b">>, NameMd >>          \* /ext/b/n.md
SrcTxt == Append(Ext, <<"m", ".", "t", "x", "t">>)   \* /ext/m.txt
SrcMissing == Append(Ext, <<"x", ".", "m", "d">>)    \* /ext/x.md, not there

\* /lib/../ext/m.txt: the parts begin with the library's, the file is outside
Traversal == LibraryPath \o <<DotDot>> \o SrcTxt
\* /lib/General/x.md, not there
DocMissing == LibraryPath \o <<General, <<"x", ".", "m", "d">> >>

\* the category ".h", which add_document makes on first use
Hidden == <<".", "h">>

FS == [files |-> files, dirs |-> dirs]

\* the regular files below the library root, by resolved path
LibraryFiles(fs) == {q \in DOMAIN fs.files : StartsWith(q, Resolve(LibraryPath))}

\* the files the calls have made, inside the library or not: every file but
\* the sources of Init
CreatedFiles(fs) == DOMAIN fs.files \ {Src1, Src2, Src3, SrcTxt}

Op(name, path, category, recursive) ==
    [name |-> name, path |-> path, category |-> category, recursive |-> recursive]

Ret(r) == [success |-> r.success, msg |-> r.msg, path |-> r.path, raised |-> r.raised,
           success_count |-> 0, fail_count |-> 0, messages |-> <<>>, doc_count |-> 0]

\* no call is in progress and no result is held
Idle == Op("idle", None, NoCategory, FALSE)
NoRet == Ret(Result(FS, TRUE, "", None, FALSE))

Init ==
    /\ files = (Src1 :> 1) @@ (Src2 :> 2) @@ (Src3 :> 3) @@ (SrcTxt :> 4)
    /\ dirs = EnsureDefaultCategories(
                  [files |-> <<>>,
                   dirs |-> {<<>>, Ext, Append(Ext, <<"a">>), Append(Ext, <<"b">>),
                             LibraryPath}]).dirs
    /\ db = <<>>
    /\ show_dotfiles = FALSE
    /\ mounted = FALSE
    /\ nodes = <<>>
    /\ expanded = {}
    /\ cursor = None
    /\ op = Idle
    /\ ret = NoRet

\* the caller is done with the result of the call (the command prints it and
\* exits, the handler returns to the event loop)
Return ==
    /\ op # Idle
    /\ op' = Idle
    /\ ret' = NoRet
    /\ UNCHANGED <<fsVars, db, treeVars>>

----------------------------------------------------------------------------
(* The Library Store called on its own (the command line, a test).         *)

DoAddDocument(S, C, max) ==
    \E source_path \in S, category \in C :
        LET r == AddDocument(FS, source_path, category, NoTitle)
        IN /\ op = Idle
           /\ Cardinality(CreatedFiles(r.fs)) <= max
           /\ files' = r.fs.files
           /\ dirs' = r.fs.dirs
           /\ op' = Op("add_document", source_path, category, FALSE)
           /\ ret' = Ret(r)
           /\ UNCHANGED <<db, treeVars>>

DoCreateCategory(N) ==
    \E name \in N :
        LET r == CreateCategory(FS, name)
        IN /\ op = Idle
           /\ files' = r.fs.files
           /\ dirs' = r.fs.dirs
           /\ op' = Op("create_category", None, name, FALSE)
           /\ ret' = Ret(r)
           /\ UNCHANGED <<db, treeVars>>

DoMoveDocument(P, C, max) ==
    \E document_path \in P, new_category \in C :
        LET r == MoveDocument(FS, document_path, new_category)
        IN /\ op = Idle
           /\ Cardinality(CreatedFiles(r.fs)) <= max
           /\ files' = r.fs.files
           /\ dirs' = r.fs.dirs
           /\ op' = Op("move_document", document_path, new_category, FALSE)
           /\ ret' = Ret(r)
           /\ UNCHANGED <<db, treeVars>>

DoDeleteDocument(P) ==
    \E document_path \in P :
        LET r == DeleteDocument(FS, document_path)
        IN /\ op = Idle
           /\ files' = r.fs.files
           /\ dirs' = r.fs.dirs
           /\ op' = Op("delete_document", document_path, NoCategory, FALSE)
           /\ ret' = Ret(r)
           /\ UNCHANGED <<db, treeVars>>

DoImportDirectory(D, C, max) ==
    \E source_dir \in D, category \in C, recursive \in BOOLEAN :
        \E order \in Orders(Matches(FS, source_dir, recursive)) :
            LET r == ImportDirectory(FS, source_dir, category, recursive, order)
            IN /\ op = Idle
               /\ Cardinality(CreatedFiles(r.fs)) <= max
               /\ files' = r.fs.files
               /\ dirs' = r.fs.dirs
               /\ op' = Op("import_directory", source_dir, category, recursive)
               /\ ret' = [success |-> ~r.raised, msg |-> "", path |-> None,
                          raised |-> r.raised, success_count |-> r.success_count,
                          fail_count |-> r.fail_count, messages |-> r.messages,
                          doc_count |-> 0]
               /\ UNCHANGED <<db, treeVars>>

DoExportLibrary(P) ==
    \E export_path \in P :
        LET r == ExportLibrary(FS, export_path)
        IN /\ op = Idle
           /\ files' = r.fs.files
           /\ dirs' = r.fs.dirs
           /\ op' = Op("export_library", export_path, NoCategory, FALSE)
           /\ ret' = [Ret(r) EXCEPT !.doc_count = r.doc_count]
           /\ UNCHANGED <<db, treeVars>>

----------------------------------------------------------------------------
(* The Status Store called on its own.                                     *)

DbRet(value) == [NoRet EXCEPT !.success = value]

DoMarkAsRead(K) ==
    \E library_path \in K :
        /\ op = Idle
        /\ db' = MarkAsRead(db, library_path)
        /\ op' = Op("mark_as_read", library_path, NoCategory, FALSE)
        /\ ret' = NoRet
        /\ UNCHANGED <<fsVars, treeVars>>

DoMarkAsUnread(K) ==
    \E library_path \in K :
        /\ op = Idle
        /\ db' = MarkAsUnread(db, library_path)
        /\ op' = Op("mark_as_unread", library_path, NoCategory, FALSE)
        /\ ret' = NoRet
        /\ UNCHANGED <<fsVars, treeVars>>

DoIsRead(K) ==
    \E library_path \in K :
        /\ op = Idle
        /\ op' = Op("is_read", library_path, NoCategory, FALSE)
        /\ ret' = DbRet(IsRead(db, library_path))
        /\ UNCHANGED <<fsVars, db, treeVars>>

DoUpdateLastOpened(K) ==
    \E library_path \in K :
        /\ op = Idle
        /\ db' = UpdateLastOpened(db, library_path)
        /\ op' = Op("update_last_opened", library_path, NoCategory, FALSE)
        /\ ret' = NoRet
        /\ UNCHANGED <<fsVars, treeVars>>

DoDbAddDocument(K) ==
    \E library_path \in K :
        /\ op = Idle
        /\ db' = DbAddDocument(db, library_path)
        /\ op' = Op("Database.add_document", library_path, NoCategory, FALSE)
        /\ ret' = DbRet(TRUE)
        /\ UNCHANGED <<fsVars, treeVars>>

DoDbDeleteDocument(K) ==
    \E library_path \in K :
        /\ op = Idle
        /\ db' = DbDeleteDocument(db, library_path)
        /\ op' = Op("Database.delete_document", library_path, NoCategory, FALSE)
        /\ ret' = DbRet(HasRow(db, library_path))
        /\ UNCHANGED <<fsVars, treeVars>>

----------------------------------------------------------------------------
(* The tree widget and the flows of app.py and cli.py that add documents.  *)

Tree == [nodes |-> nodes, expanded |-> expanded, cursor |-> cursor]

\* the widget's variables after refresh_tree, and the table it synced
Refreshed(fs, d) ==
    LET t == RefreshTree(fs, d, show_dotfiles, Tree)
    IN /\ db' = t.db
       /\ nodes' = t.nodes
       /\ expanded' = t.expanded
       /\ cursor' = t.cursor

\* FileTree.on_mount
Mount ==
    /\ op = Idle
    /\ ~mounted
    /\ mounted' = TRUE
    /\ LET built == PopulateTree(FS, db, show_dotfiles)
       IN nodes' = built.nodes /\ expanded' = built.expanded
    /\ op' = Op("on_mount", None, NoCategory, FALSE)
    /\ ret' = NoRet
    /\ UNCHANGED <<fsVars, db, show_dotfiles, cursor>>

\* DirektivApp.action_refresh; op.path is the selected_path refresh_tree saved
ActionRefresh ==
    /\ op = Idle
    /\ mounted
    /\ Refreshed(FS, db)
    /\ op' = Op("refresh_tree", cursor, NoCategory, FALSE)
    /\ ret' = NoRet
    /\ UNCHANGED <<fsVars, show_dotfiles, mounted>>

\* the nodes on the lines of the tree: the category nodes and the document
\* nodes of the expanded ones
VisibleNodes ==
    {q \in DOMAIN nodes : nodes[q] = "folder" \/ Parent(q) \in expanded}

\* the user moves the cursor to a line of the tree (keys that on_key leaves
\* to the Tree widget)
MoveCursor ==
    \E q \in VisibleNodes :
        /\ op = Idle
        /\ mounted
        /\ cursor # q
        /\ cursor' = q
        /\ UNCHANGED <<fsVars, db, show_dotfiles, mounted, nodes, expanded, op, ret>>

\* the user selects a category node: the cursor goes there and the node is
\* expanded if it was collapsed, collapsed if it was expanded
ToggleNode(C) ==
    \E category \in C :
        LET q == Join(root_dir, category)
        IN /\ op = Idle
           /\ mounted
           /\ q \in DOMAIN nodes
           /\ cursor' = q
           /\ expanded' = IF q \in expanded THEN expanded \ {q} ELSE expanded \cup {q}
           /\ UNCHANGED <<fsVars, db, show_dotfiles, mounted, nodes, op, ret>>

\* FileTree.add_document
TreeAddDocument(S, C, max) ==
    \E source_path \in S, category \in C :
        LET r == AddDocument(FS, source_path, category, NoTitle)
        IN /\ op = Idle
           /\ mounted
           /\ Cardinality(CreatedFiles(r.fs)) <= max
           /\ files' = r.fs.files
           /\ dirs' = r.fs.dirs
           /\ IF r.raised THEN UNCHANGED <<db, nodes, expanded, cursor>>
              ELSE IF r.success /\ r.path # None
              THEN Refreshed(r.fs, DbAddDocument(db, r.path))
              ELSE UNCHANGED <<db, nodes, expanded, cursor>>
           /\ op' = Op("FileTree.add_document", source_path, category, FALSE)
           /\ ret' = [Ret(r) EXCEPT !.path = None]
           /\ UNCHANGED <<show_dotfiles, mounted>>

\* FileTree.delete_document
TreeDeleteDocument(P) ==
    \E document_path \in P :
        LET r == DeleteDocument(FS, document_path)
        IN /\ op = Idle
           /\ mounted
           /\ files' = r.fs.files
           /\ dirs' = r.fs.dirs
           /\ IF r.success
              THEN Refreshed(r.fs, DbDeleteDocument(db, document_path))
              ELSE UNCHANGED <<db, nodes, expanded, cursor>>
           /\ op' = Op("FileTree.delete_document", document_path, NoCategory, FALSE)
           /\ ret' = Ret(r)
           /\ UNCHANGED <<show_dotfiles, mounted>>

\* the add command of cli.py
CliAdd(S, C, max) ==
    \E source_path \in S, category \in C :
        LET r == AddDocument(FS, source_path, category, NoTitle)
        IN /\ op = Idle
           /\ Cardinality(CreatedFiles(r.fs)) <= max
           /\ files' = r.fs.files
           /\ dirs' = r.fs.dirs
           /\ db' = IF r.success /\ r.path # None THEN DbAddDocument(db, r.path) ELSE db
           /\ op' = Op("cli.add", source_path, category, FALSE)
           /\ ret' = Ret(r)
           /\ UNCHANGED treeVars

\* DirektivApp.action_add_document, the dialogs answered with a file and a category
ActionAddDocument(S, C, max) ==
    \E file_path \in S, category \in C :
        LET r == AddDocument(FS, file_path, category, NoTitle)
        IN /\ op = Idle
           /\ mounted
           /\ Cardinality(CreatedFiles(r.fs)) <= max
           /\ files' = r.fs.files
           /\ dirs' = r.fs.dirs
           /\ IF r.success /\ r.path # None
              THEN Refreshed(r.fs, DbAddDocument(db, r.path))
              ELSE UNCHANGED <<db, nodes, expanded, cursor>>
           /\ op' = Op("action_add_document", file_path, category, FALSE)
           /\ ret' = Ret(r)
           /\ UNCHANGED <<show_dotfiles, mounted>>

\* FileTree.get_selected_document: the document under the cursor, or None
GetSelectedDocument(fs, t) ==
    IF /\ t.cursor # None
       /\ t.cursor \in DOMAIN t.nodes
       /\ IsFile(fs, t.cursor)
       /\ Lower(Suffix(Name(t.cursor))) = DotMd
    THEN t.cursor ELSE None

\* FileTree.mark_file_read
MarkFileRead(fs, d, dotfiles, t, file_path, is_read) ==
    RefreshTree(fs,
                IF is_read THEN MarkAsRead(d, file_path) ELSE MarkAsUnread(d, file_path),
                dotfiles, t)

\* FileTree.on_key with event.key = "space"; without a selected document
\* the handler changes nothing
KeySpace ==
    LET selected_doc == GetSelectedDocument(FS, Tree) IN
    /\ op = Idle
    /\ mounted
    /\ selected_doc # None
    /\ LET current_status == IsRead(db, selected_doc)
           t == MarkFileRead(FS, db, show_dotfiles, Tree, selected_doc, ~current_status)
       IN /\ db' = t.db
          /\ nodes' = t.nodes
          /\ expanded' = t.expanded
          /\ cursor' = t.cursor
    /\ op' = Op("on_key space", selected_doc, NoCategory, FALSE)
    /\ ret' = NoRet
    /\ UNCHANGED <<fsVars, show_dotfiles, mounted>>

\* FileTree.on_key with event.key = "delete"
KeyDelete ==
    LET selected_doc == GetSelectedDocument(FS, Tree) IN
    /\ op = Idle
    /\ mounted
    /\ selected_doc # None
    /\ LET r == DeleteDocument(FS, selected_doc)
       IN /\ files' = r.fs.files
          /\ dirs' = r.fs.dirs
          /\ IF r.success
             THEN Refreshed(r.fs, DbDeleteDocument(db, selected_doc))
             ELSE UNCHANGED <<db, nodes, expanded, cursor>>
          /\ ret' = Ret(r)
    /\ op' = Op("on_key delete", selected_doc, NoCategory, FALSE)
    /\ UNCHANGED <<show_dotfiles, mounted>>

\* the user selects a document node (enter, a click): the cursor goes
\* there, FileTree.on_node_selected posts FileSelected for a node whose data
\* is a file, and DirektivApp.on_file_tree_file_selected handles it
OnFileTreeFileSelected ==
    \E file_path \in VisibleNodes :
        /\ op = Idle
        /\ mounted
        /\ nodes[file_path] # "folder"
        /\ IsFile(FS, file_path)
        /\ cursor' = file_path
        /\ LET d1 == UpdateLastOpened(db, file_path)
           IN db' = IF ~GetDocumentInfo(d1, file_path)
                    THEN DbAddDocument(d1, file_path) ELSE d1
        /\ op' = Op("on_file_tree_file_selected", file_path, NoCategory, FALSE)
        /\ ret' = NoRet
        /\ UNCHANGED <<fsVars, show_dotfiles, mounted, nodes, expanded>>

\* FileTree.toggle_dotfiles, called by DirektivApp.action_toggle_dotfiles;
\* show_dotfiles is the flag of the widget and of its DocumentManager, which
\* are set together here and in FileTree.__init__
ToggleDotfiles ==
    /\ op = Idle
    /\ mounted
    /\ show_dotfiles' = ~show_dotfiles
    /\ LET t == RefreshTree(FS, db, ~show_dotfiles, Tree)
       IN /\ db' = t.db
          /\ nodes' = t.nodes
          /\ expanded' = t.expanded
          /\ cursor' = t.cursor
    /\ op' = Op("toggle_dotfiles", None, NoCategory, FALSE)
    /\ ret' = NoRet
    /\ UNCHANGED <<fsVars, mounted>>

\* FileTree.refresh_tree called by the caller of move_document right after
\* a move that succeeded; op and ret keep the old path and the new one
RefreshAfterMove ==
    /\ op.name = "move_document"
    /\ ret.success
    /\ mounted
    /\ Refreshed(FS, db)
    /\ op' = [op EXCEPT !.name = "move_document, refresh_tree"]
    /\ ret' = ret
    /\ UNCHANGED <<fsVars, show_dotfiles, mounted>>

----------------------------------------------------------------------------
(* SpecAdd: documents are added and imported.                              *)

AddSources == {Src1, Src2, Src3, SrcTxt, SrcMissing}
AddCategories == {General, <<>>}
ImportDirs == {Ext, Append(Ext, <<"c">>)}
ImportCategories == {NoCategory, General}

NextAdd ==
    \/ DoAddDocument(AddSources, AddCategories, MaxAddDocs)
    \/ DoImportDirectory(ImportDirs, ImportCategories, MaxAddDocs)
    \/ Return

SpecAdd == Init /\ [][NextAdd]_vars

----------------------------------------------------------------------------
(* SpecDb: the Status Store under every sequence of its operations.        *)

\* /test/file.md of tests/test_database.py and two documents of the library
TestFile == << <<"t", "e", "s", "t">>, <<"f", "i", "l", "e", ".", "m", "d">> >>
Keys == {TestFile, LibraryPath \o <<General, NameMd>>, DocMissing}

NextDb ==
    \/ DoMarkAsRead(Keys)
    \/ DoMarkAsUnread(Keys)
    \/ DoIsRead(Keys)
    \/ DoUpdateLastOpened(Keys)
    \/ DoDbAddDocument(Keys)
    \/ DoDbDeleteDocument(Keys)
    \/ Return

SpecDb == Init /\ [][NextDb]_vars

----------------------------------------------------------------------------
(* SpecMove: documents are added, moved and deleted.                       *)

\* the paths a caller may hand to move_document and delete_document
PathArgs == LibraryFiles(FS) \cup {Src1, Traversal, DocMissing}
MoveCategories == {General, Work, <<"a">>, <<>>}

NextMove ==
    \/ DoAddDocument({Src1, Src2}, {General, Work}, MaxMoveDocs)
    \/ DoMoveDocument(PathArgs, MoveCategories, MaxMoveDocs)
    \/ DoDeleteDocument(PathArgs)
    \/ Return

SpecMove == Init /\ [][NextMove]_vars

----------------------------------------------------------------------------
(* SpecCat: categories are created, by name and by adding a document.      *)

NameArgs == {<<"M", "y", "/", "C", "a", "t", "*">>, <<" ", "a", " ">>, <<"/", "*">>,
             <<" ">>, <<>>, <<"a", " ", "-", "_", "b">>, <<"b", "/">>, <<"a">>, General}

NextCat ==
    \/ DoCreateCategory(NameArgs)
    \/ DoAddDocument({Src1}, {<<"a">>, <<"b">>}, MaxAddDocs)
    \/ Return

SpecCat == Init /\ [][NextCat]_vars

----------------------------------------------------------------------------
(* Spec: the application; the library is also changed from the command     *)
(* line and by direct calls of the DocumentManager.                        *)

TreeSources == {Src1, SrcTxt, SrcMissing}
TreeCategories == {General, <<"a">>}

Next ==
    \/ Mount
    \/ ActionRefresh
    \/ TreeAddDocument(TreeSources, TreeCategories, MaxTreeDocs)
    \/ TreeDeleteDocument(PathArgs)
    \/ ActionAddDocument(TreeSources, TreeCategories, MaxTreeDocs)
    \/ CliAdd(TreeSources, TreeCategories, MaxTreeDocs)
    \/ DoAddDocument(TreeSources, TreeCategories, MaxTreeDocs)
    \/ DoDeleteDocument(PathArgs)
    \/ Return

Spec == Init /\ [][Next]_vars

----------------------------------------------------------------------------
(* SpecLib: every operation of the Library Store that takes a category,    *)
(* called with category strings as a caller may type them.                 *)

\* "General", "a*" and "..": a clean name, a name with a character that
\* create_category drops, and the parent directory
LibCategories == {General, <<"a", "*">>, DotDot}

NextLib ==
    \/ DoCreateCategory({<<"a", "*">>, <<"b">>})
    \/ DoAddDocument({Src1, Src2}, LibCategories, MaxLibDocs)
    \/ DoMoveDocument(LibraryFiles(FS), LibCategories, MaxLibDocs)
    \/ DoImportDirectory({Append(Ext, <<"a">>)}, {NoCategory, <<"a", "*">>}, MaxLibDocs)
    \/ Return

SpecLib == Init /\ [][NextLib]_vars

----------------------------------------------------------------------------
(* SpecImport: directories are imported, with and without a category, into *)
(* a library that is empty or holds documents already.                     *)

\* no category, "General", and "x/y", whose parent directory is not there
ImportCategoryArgs == {NoCategory, General, <<"x", "/", "y">>}
ImportDirArgs == {Ext, Append(Ext, <<"a">>), Append(Ext, <<"c">>)}

NextImport ==
    \/ DoImportDirectory(ImportDirArgs, ImportCategoryArgs, MaxImportDocs)
    \/ DoAddDocument({Src1, Src2}, {General, <<"a">>}, MaxImportDocs)
    \/ Return

SpecImport == Init /\ [][NextImport]_vars

----------------------------------------------------------------------------
(* SpecExport: the library is exported while documents are added.          *)

\* /out, not there
Out == << <<"o", "u", "t">> >>
\* a new directory, an existing one, and a new one inside the library root
ExportPaths == {Out, Ext, Append(LibraryPath, <<"e", "x", "p">>)}

NextExport ==
    \/ DoExportLibrary(ExportPaths)
    \/ DoAddDocument({Src1, Src2}, {General, Work}, MaxExportDocs)
    \/ Return

SpecExport == Init /\ [][NextExport]_vars

----------------------------------------------------------------------------
(* SpecTree: the user moves in the tree and refreshes it while documents   *)
(* are added to the library and deleted from it behind the widget's back.  *)

NextTree ==
    \/ Mount
    \/ MoveCursor
    \/ ToggleNode({General, Work})
    \/ ActionRefresh
    \/ DoAddDocument({Src1}, {General, Work, Personal}, MaxNavDocs)
    \/ DoDeleteDocument(LibraryFiles(FS))
    \/ Return

SpecTree == Init /\ [][NextTree]_vars

----------------------------------------------------------------------------
(* SpecRead: the user opens documents, toggles their read status and       *)
(* deletes them in the widget while documents are added, moved and deleted *)
(* by direct calls of the DocumentManager.                                 *)

NextRead ==
    \/ Mount
    \/ MoveCursor
    \/ KeySpace
    \/ KeyDelete
    \/ OnFileTreeFileSelected
    \/ ActionRefresh
    \/ TreeDeleteDocument(LibraryFiles(FS) \cup {DocMissing, Src1})
    \/ DoAddDocument({Src1}, {General, Work}, MaxReadDocs)
    \/ DoMoveDocument(LibraryFiles(FS), {General, Work}, MaxReadDocs)
    \/ RefreshAfterMove
    \/ DoDeleteDocument(LibraryFiles(FS))
    \/ Return

SpecRead == Init /\ [][NextRead]_vars

----------------------------------------------------------------------------
(* SpecOps: the six operations of the Library Store, with categories that *)
(* are there, that can be made, and that cannot.                           *)

\* "General", "a" (made on first use) and "x/y", whose parent is not there
OpsCategories == {General, <<"a">>, <<"x", "/", "y">>}

NextOps ==
    \/ DoAddDocument({Src1}, OpsCategories, MaxOpsDocs)
    \/ DoCreateCategory({<<"b">>, <<"a">>})
    \/ DoMoveDocument(LibraryFiles(FS), OpsCategories, MaxOpsDocs)
    \/ DoDeleteDocument(LibraryFiles(FS) \cup {DocMissing})
    \/ DoImportDirectory({Append(Ext, <<"a">>)}, {NoCategory, <<"x", "/", "y">>}, MaxOpsDocs)
    \/ DoExportLibrary({Out})
    \/ Return

SpecOps == Init /\ [][NextOps]_vars

----------------------------------------------------------------------------
(* SpecGrow: documents come into a category and leave it again, by every   *)
(* operation that moves files, while the widget is refreshed.              *)

NextGrow ==
    \/ DoAddDocument({Src1}, {<<"a">>}, MaxGrowDocs)
    \/ DoMoveDocument(LibraryFiles(FS), {Work}, MaxGrowDocs)
    \/ DoDeleteDocument(LibraryFiles(FS))
    \/ DoImportDirectory({Append(Ext, <<"a">>)}, {NoCategory}, MaxGrowDocs)
    \/ DoExportLibrary({Out})
    \/ Mount
    \/ ActionRefresh
    \/ Return

SpecGrow == Init /\ [][NextGrow]_vars

----------------------------------------------------------------------------
(* SpecDot: hidden categories are shown and hidden again while documents   *)
(* are added to a hidden category and to General, and deleted.             *)

NextDot ==
    \/ Mount
    \/ ToggleDotfiles
    \/ ActionRefresh
    \/ DoAddDocument({Src1}, {General, Hidden}, MaxDotDocs)
    \/ DoDeleteDocument(LibraryFiles(FS))
    \/ Return

SpecDot == Init /\ [][NextDot]_vars

----------------------------------------------------------------------------
(* Claims about add_document and import_directory.                         *)

\* the call of the last step was add_document with a source it accepts
AddedValid(o, fs) ==
    /\ o.name = "add_document"
    /\ IsFile(fs, o.path)
    /\ Lower(Suffix(Name(o.path))) = DotMd

\* name.md, name_1.md, name_2.md, ...
Suffixed(name, k) ==
    IF k = 0 THEN name ELSE Stem(name) \o <<"_">> \o DecStr(k) \o DotMd

\* the names of the regular files directly inside directory d
NamesIn(fs, d) == {Name(q) : q \in {r \in DOMAIN fs.files : Parent(r) = Resolve(d)}}

\* C3: when the named category holds exactly the copies name.md, name_1.md, ...,
\* name_(k-1).md, all of a content other than the source's, add_document
\* stores the source as name_k.md (as name.md when k = 0).
C3_SuffixSequence ==
    [][\A k \in 0..MaxAddDocs :
        LET category_path == Join(LibraryPath, op'.category)
            name == Name(op'.path)
        IN (/\ AddedValid(op', FS)
            /\ op'.category # NoCategory
            /\ NamesIn(FS, category_path) = {Suffixed(name, j) : j \in 0..(k - 1)}
            /\ \A q \in DOMAIN files :
                   Parent(q) = Resolve(category_path) => files[q] # files[op'.path])
           => /\ ret'.success
              /\ ret'.path = Append(category_path, Suffixed(name, k))]_vars

\* nm is dest or dest's stem followed by groups "_<digits>", then ".md"
IsCopyName(nm, dest) ==
    \/ nm = dest
    \/ /\ StartsWith(nm, Stem(dest) \o <<"_">>)
       /\ EndsWith(nm, DotMd)
       /\ \A i \in (Len(Stem(dest)) + 1)..(Len(nm) - Len(DotMd)) :
              nm[i] \in Digits \cup {"_"}

\* C4: adding a source whose content the named category already holds, under the
\* destination name or under a suffixed name of it, creates no file and
\* reports already-exists with the path of the existing copy.
C4_SameContentOnce ==
    [][LET category_path == Join(LibraryPath, op'.category)
           copies == {q \in DOMAIN files :
                         /\ Parent(q) = Resolve(category_path)
                         /\ IsCopyName(Name(q), Name(op'.path))
                         /\ files[q] = files[op'.path]}
       IN (AddedValid(op', FS) /\ op'.category # NoCategory /\ copies # {})
          => /\ files' = files
             /\ ~ret'.success
             /\ ret'.msg = "Document already exists in library"
             /\ Resolve(ret'.path) \in copies]_vars

\* C5: add_document and import_directory leave every file that existed with
\* its content; a successful add_document adds exactly one file, and
\* import_directory adds one file per success it counts.
C5_NeverOverwrites ==
    [][op'.name \in {"add_document", "import_directory"}
       => /\ \A q \in DOMAIN files : q \in DOMAIN files' /\ files'[q] = files[q]
          /\ (op'.name = "add_document" /\ ret'.success)
             => Cardinality(DOMAIN files') = Cardinality(DOMAIN files) + 1
          /\ (op'.name = "add_document" /\ ~ret'.success) => files' = files
          /\ op'.name = "import_directory"
             => Cardinality(DOMAIN files') = Cardinality(DOMAIN files) + ret'.success_count]_vars

\* a colliding source of another content has been added under a suffixed name
C5_Witness ==
    /\ op.name = "add_document"
    /\ ret.success
    /\ Name(ret.path) # Name(op.path)
    /\ Cardinality(LibraryFiles(FS)) >= 2

\* C6: after a successful add_document(source, category), list_documents(category)
\* has exactly one entry for the returned path, an existing file directly
\* inside the category directory.
C6_AddThenList ==
    (op.name = "add_document" /\ ret.success)
    => /\ Cardinality({doc \in ListDocuments(FS, show_dotfiles, op.category) :
                          doc.path = ret.path}) = 1
       /\ IsFile(FS, ret.path)
       /\ Parent(ret.path) = Join(LibraryPath, op.category)

----------------------------------------------------------------------------
(* Claims about the Status Store.                                          *)

\* C1: after mark_as_read(path), is_read(path) is true, whether or not the
\* table held a row for path before.
C1_MarkReadThenIsRead == op.name = "mark_as_read" => IsRead(db, op.path)

\* C2: after mark_as_unread(path), is_read(path) is false; is_read on a path
\* without a row returns false, raises nothing and leaves the table as it was.
C2_UnreadAndUnknown ==
    [][/\ op'.name = "mark_as_unread" => ~IsRead(db', op'.path)
       /\ (op'.name = "is_read" /\ ~HasRow(db, op'.path))
          => ~ret'.success /\ ~ret'.raised /\ db' = db]_vars

\* a document that had been marked read has been marked unread
C2_Witness ==
    /\ op.name = "mark_as_unread"
    /\ HasRow(db, op.path)
    /\ db[op.path].last_opened = "ts"
    /\ \E k \in DOMAIN db : k # op.path /\ db[k].is_read

----------------------------------------------------------------------------
(* Claims about invalid sources and about paths outside the library.       *)

AddFlows == {"add_document", "FileTree.add_document", "cli.add", "action_add_document"}

\* C7: add_document with a source that does not exist or is not a .md file
\* fails with a message and no path; no directory is made, no file is
\* copied and no row of the table is inserted or changed, also through
\* FileTree.add_document and the add flows of app.py and cli.py.
C7_InvalidSourceNoEffect ==
    [][(/\ op'.name \in AddFlows
        /\ \/ ~Exists(FS, op'.path)
           \/ Lower(Suffix(Name(op'.path))) # DotMd)
       => /\ ~ret'.success
          /\ ret'.msg # ""
          /\ ret'.path = None
          /\ ~ret'.raised
          /\ files' = files
          /\ dirs' = dirs
          /\ db' = db]_vars

\* FileTree.add_document was given a text file for a category that is not
\* there, the table holding rows
C7_Witness ==
    /\ op.name = "FileTree.add_document"
    /\ op.path = SrcTxt
    /\ op.category = <<"a">>
    /\ ~ret.success
    /\ Append(LibraryPath, <<"a">>) \notin dirs
    /\ db # <<>>

\* the file p leads to lies below the library root
UnderLibrary(p) == StartsWith(Resolve(p), Resolve(LibraryPath))

\* C8: delete_document on a path that is not under the library root fails
\* and leaves every file and every row as it was, on the DocumentManager
\* and through FileTree.delete_document.
C8_DeleteOutsideFails ==
    [][(/\ op'.name \in {"delete_document", "FileTree.delete_document"}
        /\ ~UnderLibrary(op'.path))
       => /\ ~ret'.success
          /\ files' = files
          /\ dirs' = dirs
          /\ db' = db]_vars

\* the documents of the library: the .md files directly inside a category
NumDocuments(fs) == Cardinality(ListDocuments(fs, TRUE, NoCategory))

\* C9: move_document fails and changes nothing on disk when the path does
\* not exist, is not under the library root, or its name is taken in the
\* target category; otherwise the target category exists afterwards, the
\* file is in it under its name and no longer at the old path, and the
\* number of documents is what it was.
C9_MoveDocument ==
    [][op'.name = "move_document"
       => LET target == Join(LibraryPath, op'.category)
              new_path == Append(target, Name(op'.path))
          IN IF \/ ~Exists(FS, op'.path)
                \/ ~UnderLibrary(op'.path)
                \/ Exists(FS, new_path)
             THEN ~ret'.success /\ files' = files /\ dirs' = dirs
             ELSE /\ ret'.success
                  /\ Resolve(target) \in dirs'
                  /\ Resolve(new_path) \in DOMAIN files'
                  /\ files'[Resolve(new_path)] = files[Resolve(op'.path)]
                  /\ Resolve(op'.path) \notin DOMAIN files'
                  /\ NumDocuments([files |-> files', dirs |-> dirs']) = NumDocuments(FS)]_vars

----------------------------------------------------------------------------
(* Claims about create_category.                                           *)

\* the alphanumeric, space, hyphen and underscore characters of name
KeptChars(name) ==
    SelectSeq(name, LAMBDA c : c \in Letters \cup Digits \cup {" ", "-", "_"})

\* s without its leading and trailing spaces
Trimmed(s) ==
    LET solid == {i \in 1..Len(s) : s[i] # " "}
    IN IF solid = {} THEN <<>>
       ELSE SubSeq(s, CHOOSE i \in solid : \A j \in solid : i <= j,
                      CHOOSE i \in solid : \A j \in solid : j <= i)

\* C10: create_category(name) fails with a message and creates nothing when
\* the kept characters of name, trimmed, are empty or name a directory that
\* exists; otherwise it creates exactly that directory, and list_categories
\* reports it.
C10_CreateCategory ==
    [][op'.name = "create_category"
       => LET safe == Trimmed(KeptChars(op'.category))
              path == Append(LibraryPath, safe)
          IN IF safe = <<>> \/ path \in dirs
             THEN ~ret'.success /\ ret'.msg # "" /\ dirs' = dirs /\ files' = files
             ELSE /\ ret'.success
                  /\ dirs' = dirs \cup {path}
                  /\ files' = files
                  /\ safe \in ListCategories([files |-> files', dirs |-> dirs'],
                                             show_dotfiles)]_vars

\* "My/Cat*" has been created as MyCat, next to a category "a"
C10_Witness ==
    /\ op.name = "create_category"
    /\ op.category = <<"M", "y", "/", "C", "a", "t", "*">>
    /\ ret.success
    /\ Append(LibraryPath, <<"M", "y", "C", "a", "t">>) \in dirs
    /\ Append(LibraryPath, <<"a">>) \in dirs

----------------------------------------------------------------------------
(* Claims about the category strings a caller passes.                      *)

\* n is not empty and made of alphanumerics, spaces, hyphens and underscores
ValidCategoryName(n) ==
    /\ n # <<>>
    /\ \A i \in 1..Len(n) : n[i] \in Letters \cup Digits \cup {" ", "-", "_"}

\* the directories directly inside the library root
CategoryDirs(ds) == {d \in ds : d # <<>> /\ Parent(d) = Resolve(LibraryPath)}

\* C11: whatever category strings create_category, add_document,
\* move_document and import_directory were called with, every directory
\* directly inside the library root has a non-empty name made only of
\* alphanumerics, spaces, hyphens and underscores.
C11_CategoryNamesSanitized == \A d \in CategoryDirs(dirs) : ValidCategoryName(Name(d))

\* C12: the path of a successful add_document or move_document leads to a
\* file below the library root whose parent is the directory of the category
\* named in the call, directly inside the library root.
C12_PathInsideCategory ==
    [][(op'.name \in {"add_document", "move_document"} /\ ret'.success)
       => LET p == Resolve(ret'.path)
          IN /\ StartsWith(p, Resolve(LibraryPath))
             /\ Parent(p) = Append(Resolve(LibraryPath), op'.category)
             /\ p \in DOMAIN files']_vars

----------------------------------------------------------------------------
(* Claims about import_directory.                                          *)

\* C13: import_directory on an existing directory returns, and its counts
\* and its messages account for every matched file:
\* success_count + fail_count = number of matches = number of messages.
C13_ImportCountsEveryMatch ==
    [][(op'.name = "import_directory" /\ IsDir(FS, op'.path))
       => LET n == Cardinality(Matches(FS, op'.path, op'.recursive))
          IN /\ ~ret'.raised
             /\ ret'.success_count + ret'.fail_count = n
             /\ Len(ret'.messages) = n]_vars

\* the regular files at or below directory d
FilesBelow(fs, d) ==
    {q \in DOMAIN fs.files : Len(q) > Len(Resolve(d)) /\ StartsWith(q, Resolve(d))}

\* C14: importing, without a category, a directory that holds three .md
\* files and one file that is not markdown into a library without documents
\* reports success_count = 3 and returns four messages.
C14_ThreeOfFour ==
    [][(/\ op'.name = "import_directory"
        /\ op'.category = NoCategory
        /\ Cardinality(Matches(FS, op'.path, op'.recursive)) = 3
        /\ Cardinality(FilesBelow(FS, op'.path)) = 4
        /\ LibraryFiles(FS) = {})
       => /\ ret'.success_count = 3
          /\ Len(ret'.messages) = 4]_vars

\* the directory of the category the claim names for matched file f
ClaimedCategoryDir(o, f) ==
    Resolve(Join(LibraryPath,
                 IF o.category # NoCategory THEN o.category
                 ELSE IF Parent(f) = o.path THEN General
                 ELSE Name(Parent(f))))

\* C15: when import_directory returns, the content of every matched file is
\* in the given category if one was given, else in "General" for a file
\* directly inside source_dir and in the category named after its parent
\* directory for a file of a subdirectory; no file is made anywhere else.
C15_ImportTargetCategory ==
    [][(op'.name = "import_directory" /\ IsDir(FS, op'.path) /\ ~ret'.raised)
       => LET matched == Matches(FS, op'.path, op'.recursive)
          IN /\ \A f \in matched :
                    \E q \in DOMAIN files' :
                        /\ Parent(q) = ClaimedCategoryDir(op', f)
                        /\ files'[q] = files[Resolve(f)]
             /\ \A q \in DOMAIN files' \ DOMAIN files :
                    \E f \in matched :
                        /\ Parent(q) = ClaimedCategoryDir(op', f)
                        /\ files'[q] = files[Resolve(f)]]_vars

\* /ext was imported without a category: n.md went to General, a/n.md to
\* the category a and b/n.md to the category b
C15_Witness ==
    /\ op.name = "import_directory"
    /\ op.path = Ext
    /\ op.category = NoCategory
    /\ ret.success_count = 3
    /\ {LibraryPath \o <<General, NameMd>>, LibraryPath \o << <<"a">>, NameMd >>,
        LibraryPath \o << <<"b">>, NameMd >>} \subseteq DOMAIN files

----------------------------------------------------------------------------
(* Claims about export_library.                                            *)

\* the path below directory d that q, a path below the library root, has in
\* a copy of the library made at d
CopyAt(d, q) == Resolve(d) \o SubSeq(q, Len(Resolve(LibraryPath)) + 1, Len(q))

\* the directories at or below the library root
LibraryDirs(ds) == {d \in ds : StartsWith(d, Resolve(LibraryPath))}

\* the number of .md files in the library
NumMdFiles(fs) == Cardinality({q \in LibraryFiles(fs) : EndsWith(Name(q), DotMd)})

\* C16: export_library(dest) fails and changes nothing when dest exists;
\* otherwise it succeeds, dest holds a copy of every directory and file of
\* the library and nothing else, and the reported count is the number of
\* .md files in the library; either way the files and directories of the
\* library are what they were.
C16_ExportLibrary ==
    [][op'.name = "export_library"
       => LET after == [files |-> files', dirs |-> dirs']
          IN /\ LibraryFiles(after) = LibraryFiles(FS)
             /\ \A q \in LibraryFiles(FS) : files'[q] = files[q]
             /\ LibraryDirs(dirs') = LibraryDirs(dirs)
             /\ IF Exists(FS, op'.path)
                THEN ~ret'.success /\ files' = files /\ dirs' = dirs
                ELSE /\ ret'.success
                     /\ ret'.doc_count = NumMdFiles(FS)
                     /\ FilesBelow(after, op'.path)
                            = {CopyAt(op'.path, q) : q \in LibraryFiles(FS)}
                     /\ \A q \in LibraryFiles(FS) :
                            files'[CopyAt(op'.path, q)] = files[q]
                     /\ {d \in dirs' : StartsWith(d, Resolve(op'.path))}
                            = {CopyAt(op'.path, d) : d \in LibraryDirs(dirs)}]_vars

----------------------------------------------------------------------------
(* Claims about refresh_tree.                                              *)

\* the data paths of the category nodes of the tree ns
CategoryNodes(ns) == {q \in DOMAIN ns : ns[q] = "folder"}

\* C17: refresh_tree leaves expanded every category node that was expanded
\* and is still in the tree, and leaves the cursor on the document it was
\* on if that document is still there.
C17_RefreshKeepsNavigation ==
    [][op'.name = "refresh_tree"
       => /\ \A q \in CategoryNodes(nodes) \cap expanded :
                 q \in DOMAIN nodes' => q \in expanded'
          /\ (/\ cursor # None
              /\ cursor \in DOMAIN nodes
              /\ nodes[cursor] # "folder"
              /\ IsFile(FS, cursor))
             => cursor' = cursor]_vars

\* General is expanded with the cursor on its document, and the refresh has
\* put a document of Work, added since the tree was built, into the tree and
\* into the table
C17_Witness ==
    /\ op.name = "refresh_tree"
    /\ op.path = LibraryPath \o <<General, NameMd>>
    /\ cursor = op.path
    /\ Append(LibraryPath, General) \in expanded
    /\ LibraryPath \o <<Work, NameMd>> \in DOMAIN nodes
    /\ DOMAIN db = {LibraryPath \o <<General, NameMd>>, LibraryPath \o <<Work, NameMd>>}

\* C18: a category node that showed documents and was collapsed (it was
\* expanded when the tree was built, so the user collapsed it) is still
\* collapsed after refresh_tree when the category holds a document.
C18_CollapsedStaysCollapsed ==
    [][op'.name = "refresh_tree"
       => \A q \in CategoryNodes(nodes) \ expanded :
              (/\ \E doc \in DOMAIN nodes : nodes[doc] # "folder" /\ Parent(doc) = q
               /\ ListDocuments(FS, show_dotfiles, Name(q)) # {}
               /\ q \in DOMAIN nodes')
              => q \notin expanded']_vars

\* the call of the last step ran refresh_tree
RefreshRan(o, r) ==
    \/ o.name = "refresh_tree"
    \/ /\ o.name \in {"FileTree.add_document", "FileTree.delete_document",
                      "action_add_document"}
       /\ r.success

\* C20: after refresh_tree, called by action_refresh or by a flow of the
\* widget, every document of list_documents() has a row in the table, and
\* every row the call inserted is unread with no last_opened.
C20_RefreshSyncsTable ==
    [][RefreshRan(op', ret')
       => /\ \A doc \in ListDocuments([files |-> files', dirs |-> dirs'],
                                       show_dotfiles', NoCategory) :
                 HasRow(db', doc.path)
          /\ \A k \in DOMAIN db' \ DOMAIN db : db'[k] = Row(FALSE, "NULL")]_vars

\* a refresh has inserted the rows of two documents added behind the
\* widget's back
C20_Witness ==
    /\ op.name = "refresh_tree"
    /\ Cardinality(DOMAIN db) = 2
    /\ \A k \in DOMAIN db : IsFile(FS, k)

----------------------------------------------------------------------------
(* Claims about the Status Store and the widget.                           *)

\* the call of the last step was refresh_tree and nothing else
RefreshOnly(o) == o.name \in {"refresh_tree", "move_document, refresh_tree"}

\* C21: refresh_tree deletes no row of the table, the rows of documents
\* that are gone from the disk included, and changes neither the read flag
\* nor the last_opened of a row that was there before it.
C21_RefreshOneDirectional ==
    [][RefreshOnly(op')
       => \A k \in DOMAIN db : HasRow(db', k) /\ db'[k] = db[k]]_vars

\* after a refresh the table still holds the row, marked read, of a document
\* that is deleted, next to the row of a document that is there
C21_Witness ==
    /\ op.name = "refresh_tree"
    /\ \E k \in DOMAIN db : ~Exists(FS, k) /\ db[k] = Row(TRUE, "ts")
    /\ \E k \in DOMAIN db : IsFile(FS, k)

\* the call of the last step ran refresh_tree, alone or at the end of a flow
\* of the widget
Refreshes(o, r) ==
    \/ RefreshOnly(o)
    \/ o.name \in {"on_key space", "toggle_dotfiles"}
    \/ /\ o.name \in {"on_key delete", "FileTree.delete_document"}
       /\ r.success

\* the data paths of the document nodes of the tree ns
DocumentNodes(ns) == {q \in DOMAIN ns : ns[q] # "folder"}

\* C22: after refresh_tree the category nodes are the categories of
\* list_categories, one node each, and the document nodes are the .md files
\* that are in those categories on the disk, one node each: no node of a
\* missing file, no file without a node.
C22_TreeMatchesDisk ==
    [][Refreshes(op', ret')
       => /\ CategoryNodes(nodes')
                = {Join(root_dir, c) :
                       c \in ListCategories([files |-> files', dirs |-> dirs'],
                                            show_dotfiles')}
          /\ DocumentNodes(nodes')
                = {q \in DOMAIN files' : /\ Parent(q) \in CategoryNodes(nodes')
                                         /\ EndsWith(Name(q), DotMd)}]_vars

\* a refresh has built the nodes of two documents
C22_Witness ==
    /\ op.name = "refresh_tree"
    /\ Cardinality(DocumentNodes(nodes)) = 2
    /\ DocumentNodes(nodes) \subseteq DOMAIN files

----------------------------------------------------------------------------
(* Claims about the Library Store as a whole.                              *)

LibraryOps == {"add_document", "create_category", "move_document",
               "delete_document", "import_directory", "export_library"}

\* C23: no operation of the Library Store lets an exception of the
\* filesystem out: each call returns, and a call that failed returns a
\* failure with a message.
C23_NoExceptionPropagates ==
    [][op'.name \in LibraryOps => ~ret'.raised]_vars

C24_UpdateLastOpenedUpserts ==
    [][op'.name = "update_last_opened"
       => /\ HasRow(db', op'.path)
          /\ db'[op'.path].last_opened = "ts"
          /\ db'[op'.path].is_read = IsRead(db, op'.path)]_vars

----------------------------------------------------------------------------
(* Claims about toggle_dotfiles.                                           *)

\* the category directories whose names start with "."
DotDirs(ds) == {d \in CategoryDirs(ds) : Head(Name(d)) = "."}

----------------------------------------------------------------------------
(* Claims about the read status in the widget.                             *)

\* the call of the last step built the nodes of the tree
Builds(o, r) == o.name = "on_mount" \/ Refreshes(o, r)

\* C27: after every build of the tree, by on_mount or by refresh_tree, a
\* document node shows the read glyph exactly when is_read of its path is
\* true, and after mark_file_read(path, v), which the space key calls with
\* v = not is_read(path), the node of path shows the glyph of v.
C27_GlyphShowsStatus ==
    [][/\ Builds(op', ret')
          => \A q \in DocumentNodes(nodes') : nodes'[q] = "read" <=> IsRead(db', q)
       /\ op'.name = "on_key space"
          => /\ op'.path \in DocumentNodes(nodes')
             /\ nodes'[op'.path] = "read" <=> ~IsRead(db, op'.path)]_vars

\* C28: the space key on a selected document, with or without a row in the
\* table, makes is_read of its path the negation of what it was.
C28_SpaceTogglesStatus ==
    [][op'.name = "on_key space"
       => IsRead(db', op'.path) = ~IsRead(db, op'.path)]_vars

\* C29: FileTree.delete_document, called with a path or by the delete key:
\* when the delete of the Library Store succeeds, afterwards the file is
\* gone, the table has no row for its path and the tree has no node for it;
\* when it fails, the table and the tree are as they were.
C29_DeleteKeepsInStep ==
    [][op'.name \in {"FileTree.delete_document", "on_key delete"}
       => IF ret'.success
          THEN /\ ~Exists([files |-> files', dirs |-> dirs'], op'.path)
               /\ ~HasRow(db', op'.path)
               /\ op'.path \notin DOMAIN nodes'
          ELSE /\ db' = db
               /\ nodes' = nodes
               /\ expanded' = expanded
               /\ cursor' = cursor]_vars

\* a document is deleted in the widget: its row is gone and the row of the
\* other document, marked read, is still there, next to its node
C29_Witness ==
    /\ op.name = "FileTree.delete_document"
    /\ ret.success
    /\ ~HasRow(db, op.path)
    /\ \E k \in DOMAIN db : db[k].is_read /\ k \in DocumentNodes(nodes)

----------------------------------------------------------------------------
(* Claims about move_document and the table.                               *)

\* C30 as stated: move_document leaves the table as it is, and after a move
\* that succeeded and the refresh_tree that follows it a row the old path
\* had is still there with its read flag, and the new path has a row with
\* read flag false.
C30_MoveThenRefreshAsStated ==
    [][/\ op'.name = "move_document" => db' = db
       /\ op'.name = "move_document, refresh_tree"
          => /\ HasRow(db, op'.path)
                => HasRow(db', op'.path) /\ db'[op'.path].is_read = db[op'.path].is_read
             /\ HasRow(db', ret'.path)
             /\ ~db'[ret'.path].is_read]_vars

\* C30, amended: move_document leaves the table as it is, and after a move
\* that succeeded and the refresh_tree that follows it every row the table
\* had is unchanged, the row of the old path among them, and a new path that
\* list_documents lists has a row: a new one, unread and never opened, if
\* the path had none, and else the row it had.
C30_MoveThenRefresh ==
    [][/\ op'.name = "move_document" => db' = db
       /\ op'.name = "move_document, refresh_tree"
          => /\ \A k \in DOMAIN db : HasRow(db', k) /\ db'[k] = db[k]
             /\ ret'.path \in {doc.path : doc \in ListDocuments([files |-> files',
                                                                dirs |-> dirs'],
                                                               show_dotfiles', NoCategory)}
                => /\ HasRow(db', ret'.path)
                   /\ ~HasRow(db, ret'.path) => db'[ret'.path] = Row(FALSE, "NULL")]_vars

\* a document marked read was moved from General to Work and the tree
\* refreshed: the row of the old path is still marked read and the new path
\* has a row that is unread
C30_Witness ==
    /\ op.name = "move_document, refresh_tree"
    /\ op.path = LibraryPath \o <<General, NameMd>>
    /\ ret.path = LibraryPath \o <<Work, NameMd>>
    /\ HasRow(db, op.path) /\ db[op.path].is_read
    /\ HasRow(db, ret.path) /\ ~db[ret.path].is_read

====
